---- MODULE Spec2Model ----
(***************************************************************************)
(* airman_rag: hybrid retriever (app/retriever.py), answer pipeline        *)
(* (app/rag_pipeline.py, app/llm.py), ingestion (app/ingest.py,            *)
(* app/chunker.py) and the evaluation engine (evaluation/evaluate.py).     *)
(*                                                                         *)
(* Strings are tuples of one-character strings, so that slicing, strip(),  *)
(* split() and the tokenizer are computed rather than assumed.             *)
(***************************************************************************)
EXTENDS Integers, Sequences, FiniteSets, TLC

(***************************************************************************)
(* Bounds of the model.                                                    *)
(***************************************************************************)
MaxK == 2            \* retrieve(query, k) is called with k in 1..MaxK, and with DefaultK
MaxScore == 1        \* lexical scores are drawn from 0..MaxScore
MaxQuestions == 3    \* run_evaluation() reads 0..MaxQuestions questions
MaxRanked == 6       \* the ranking is checked on 0..MaxRanked result records

(***************************************************************************)
(* Program constants.                                                      *)
(***************************************************************************)
DefaultK == 3        \* retrieve(query, k=3)
KeyLen == 50         \* c.get("text", "")[:50]
ChunkSize == 500     \* chunk_text(text, size=500, overlap=50)
ChunkOverlap == 50
TopN == 5            \* scored[:5], scored[-5:]

None == "None"
NotLoaded == -1

(***************************************************************************)
(* Text primitives (Python str semantics on the characters used).          *)
(***************************************************************************)
Whitespace == {" ", "\n", "\t"}

UpperCase == <<"A","B","C","D","E","F","G","H","I","J","K","L","M",
               "N","O","P","Q","R","S","T","U","V","W","X","Y","Z">>
LowerCase == <<"a","b","c","d","e","f","g","h","i","j","k","l","m",
               "n","o","p","q","r","s","t","u","v","w","x","y","z">>
Digits == {"0","1","2","3","4","5","6","7","8","9"}

Range(s) == {s[i] : i \in DOMAIN s}

WordChars == Range(UpperCase) \cup Range(LowerCase) \cup Digits \cup {"_"}

Min(a, b) == IF a <= b THEN a ELSE b

Rep(c, n) == [i \in 1..n |-> c]

\* text[a:b] for 0 <= a, 0 <= b (Python slice, clipped to the text)
Slice(text, a, b) == SubSeq(text, a + 1, Min(b, Len(text)))

\* str.lower(), one character
LowerChar(c) ==
    IF \E i \in DOMAIN UpperCase : UpperCase[i] = c
    THEN LowerCase[CHOOSE i \in DOMAIN UpperCase : UpperCase[i] = c]
    ELSE c

Lower(text) == [i \in DOMAIN text |-> LowerChar(text[i])]

Least(S) == CHOOSE a \in S : \A b \in S : a <= b

\* str.lstrip()
LStrip(text) ==
    LET inked == {j \in DOMAIN text : text[j] \notin Whitespace}
    IN  IF inked = {} THEN <<>> ELSE SubSeq(text, Least(inked), Len(text))

\* str.strip(): from the first to the last non-whitespace character
Strip(text) ==
    LET inked == {j \in DOMAIN text : text[j] \notin Whitespace}
        fromEnd == {Len(text) + 1 - j : j \in inked}
    IN  IF inked = {} THEN <<>>
        ELSE SubSeq(text, Least(inked), Len(text) + 1 - Least(fromEnd))

\* the maximal runs of characters of `class` in text: where each starts, and
\* where the run starting at j ends
RunStarts(text, class) ==
    {j \in DOMAIN text : text[j] \in class /\ (j = 1 \/ text[j - 1] \notin class)}

RunEnd(text, class, j) ==
    Least({e \in j..Len(text) : e = Len(text) \/ text[e + 1] \notin class})

RECURSIVE RunsFrom(_, _, _)
RunsFrom(text, class, starts) ==
    IF starts = {} THEN <<>>
    ELSE LET j == Least(starts)
         IN  <<SubSeq(text, j, RunEnd(text, class, j))>>
             \o RunsFrom(text, class, starts \ {j})

\* re.sub(r"\s+", " ", text): every whitespace run becomes one space
RECURSIVE CollapseWs(_)
CollapseWs(text) ==
    IF text = <<>> THEN <<>>
    ELSE IF Head(text) \in Whitespace
         THEN <<" ">> \o CollapseWs(LStrip(text))
         ELSE <<Head(text)>> \o CollapseWs(Tail(text))

\* str.split(): the whitespace-separated words, in order
Split(text) ==
    LET ink == Range(text) \ Whitespace
    IN  RunsFrom(text, ink, RunStarts(text, ink))

\* "\n".join(texts)
RECURSIVE Join(_)
Join(texts) ==
    IF texts = <<>> THEN <<>>
    ELSE IF Len(texts) = 1 THEN texts[1]
    ELSE texts[1] \o <<"\n">> \o Join(Tail(texts))

REFUSAL ==
    <<"T", "h", "i", "s", " ", "i", "n", "f", "o", "r", "m", "a", "t", "i", "o", "n",
      " ", "i", "s", " ", "n", "o", "t", " ", "a", "v", "a", "i", "l", "a", "b", "l", "e",
      " ", "i", "n", " ", "t", "h", "e", " ", "p", "r", "o", "v", "i", "d", "e", "d",
      " ", "d", "o", "c", "u", "m", "e", "n", "t", "(", "s", ")", ".">>

(***************************************************************************)
(* app/chunker.py                                                          *)
(***************************************************************************)
RECURSIVE ChunkFrom(_, _, _, _)
ChunkFrom(text, start, size, overlap) ==
    IF start < Len(text)
    THEN <<Slice(text, start, start + size)>>
         \o ChunkFrom(text, start + size - overlap, size, overlap)
    ELSE <<>>

chunk_text(text) == ChunkFrom(text, 0, ChunkSize, ChunkOverlap)

(***************************************************************************)
(* State.                                                                  *)
(***************************************************************************)
VARIABLES
    \* vector_store/ on disk
    diskIndex,      \* index.faiss: [exists, ntotal]
    diskMeta,       \* metadata.json: [exists, items]
    \* app/ingest.py: one ingest() run
    ingpc,          \* "idle" | "dump"
    ingMetadata,    \* local `metadata` of the running ingest()
    \* app/retriever.py module state (built at import)
    initpc,         \* "read_index" | "load_metadata" | "build_bm25" | "ready" | "failed"
    index,          \* ntotal of the loaded index, NotLoaded before line 5 ran
    metadata,
    corpus,
    bm25,           \* the tokenised corpus BM25Okapi was built from
    \* one caller of retrieve() / ask_question()
    rpc,            \* "idle" | "embed" | "search" | "generate" | "done"
    call,           \* [kind, k, debug]
    vector_chunks,
    bm25_chunks,
    chunks,         \* what retrieve() returned
    context,
    llmCalled,
    fault,          \* the service that failed during this call, None otherwise
    outcome,        \* None | "returned" | "raised"
    exc,            \* the exception raised, None otherwise
    response,       \* what ask_question() returned
    \* evaluation/evaluate.py: run_evaluation()
    questions,
    evalpc,         \* "loop" | "save" | "report" | "done"
    i,
    failed,         \* positions whose request raised inside the try block
    results,
    saved,          \* evaluation_results.json
    summary,
    best_5,
    worst_5

diskVars == <<diskIndex, diskMeta>>
ingVars == <<ingpc, ingMetadata>>
memVars == <<initpc, index, metadata, corpus, bm25>>
reqVars == <<rpc, call, vector_chunks, bm25_chunks, chunks, context, llmCalled,
             fault, outcome, exc, response>>
evalVars == <<questions, evalpc, i, failed, results, saved, summary, best_5, worst_5>>
vars == <<diskVars, ingVars, memVars, reqVars, evalVars>>

(***************************************************************************)
(* Inputs of the serving side: the contents of data/.                      *)
(***************************************************************************)
PdfExt == <<".", "p", "d", "f">>

EndsWith(text, suffix) ==
    /\ Len(text) >= Len(suffix)
    /\ SubSeq(text, Len(text) - Len(suffix) + 1, Len(text)) = suffix

File(name, pages) == [name |-> name, pages |-> pages]

NameA == <<"a", ".", "p", "d", "f">>
NameB == <<"B", ".", "P", "D", "F">>
NameTxt == <<"n", ".", "t", "x", "t">>

PageLong == Rep("a", ChunkSize + 1)     \* chunks "a"*500 and "a"*51: one key
PageXY == <<"x", " ", "y">>
PageZ == <<"z">>
PageBlank == <<" ", "\n">>
PageEmpty == <<>>

\* os.listdir(DATA_PATH), in listing order
DataDirs ==
    { <<File(NameTxt, <<PageXY>>)>>,
      <<File(NameA, <<PageLong, PageEmpty, PageXY>>), File(NameTxt, <<PageZ>>),
        File(NameB, <<PageXY>>)>>,
      <<File(NameB, <<PageBlank>>)>> }

(***************************************************************************)
(* app/ingest.py                                                           *)
(***************************************************************************)
Fragment(doc, page, text) == [doc |-> doc, page |-> page, text |-> text]

\* the two files of vector_store/
IndexFile(n) == [exists |-> TRUE, ntotal |-> n]
MetaFile(md) == [exists |-> TRUE, items |-> md]
NoIndexFile == [exists |-> FALSE, ntotal |-> 0]
NoMetaFile == [exists |-> FALSE, items |-> <<>>]

\* lines 16-22 for one file: pages are enumerated from 0
RECURSIVE PagesMetadata(_, _, _)
PagesMetadata(file, pages, p) ==
    IF pages = <<>> THEN <<>>
    ELSE LET cs == chunk_text(Head(pages))
         IN  [j \in 1..Len(cs) |-> Fragment(file, p, cs[j])]
             \o PagesMetadata(file, Tail(pages), p + 1)

\* lines 10-22
RECURSIVE IngestMetadata(_)
IngestMetadata(dir) ==
    IF dir = <<>> THEN <<>>
    ELSE LET f == Head(dir)
         IN  IF ~EndsWith(Lower(f.name), PdfExt)
             THEN IngestMetadata(Tail(dir))
             ELSE PagesMetadata(f.name, f.pages, 0) \o IngestMetadata(Tail(dir))

\* ingest() lines 10-30.  When embed(texts) fails, or when there is no
\* fragment (vectors[0] raises IndexError), the run ends before anything is
\* written; otherwise the index file is written, before the metadata
IngestStart(dir, embedOk) ==
    /\ ingpc = "idle"
    /\ LET md == IngestMetadata(dir) IN
         IF ~embedOk \/ md = <<>>
         THEN UNCHANGED <<ingpc, ingMetadata, diskVars>>
         ELSE /\ diskIndex' = IndexFile(Len(md))
              /\ ingMetadata' = md
              /\ ingpc' = "dump"
              /\ UNCHANGED diskMeta
    /\ UNCHANGED <<memVars, reqVars, evalVars>>

\* an ingest() that also swaps the retriever's in-memory corpus
IngestDumpAndReload ==
    /\ ingpc = "dump"
    /\ diskMeta' = MetaFile(ingMetadata)
    /\ ingpc' = "idle"
    /\ ingMetadata' = <<>>
    /\ metadata' = ingMetadata
    /\ corpus' = [j \in DOMAIN ingMetadata |-> ingMetadata[j].text]
    /\ UNCHANGED <<diskIndex, initpc, index, bm25, reqVars, evalVars>>

\* ingest() line 31
IngestDump ==
    /\ ingpc = "dump"
    /\ diskMeta' = MetaFile(ingMetadata)
    /\ ingpc' = "idle"
    /\ ingMetadata' = <<>>
    /\ UNCHANGED <<diskIndex, memVars, reqVars, evalVars>>

(***************************************************************************)
(* app/retriever.py, module level (lines 5-9)                              *)
(***************************************************************************)
ReadIndex ==
    /\ initpc = "read_index"
    /\ IF ~diskIndex.exists
       THEN initpc' = "failed" /\ UNCHANGED index
       ELSE initpc' = "load_metadata" /\ index' = diskIndex.ntotal
    /\ UNCHANGED <<metadata, corpus, bm25, diskVars, ingVars, reqVars, evalVars>>

LoadMetadata ==
    /\ initpc = "load_metadata"
    /\ IF ~diskMeta.exists
       THEN initpc' = "failed" /\ UNCHANGED <<metadata, corpus>>
       ELSE /\ initpc' = "build_bm25"
            /\ metadata' = diskMeta.items
            /\ corpus' = [j \in DOMAIN diskMeta.items |-> diskMeta.items[j].text]
    /\ UNCHANGED <<index, bm25, diskVars, ingVars, reqVars, evalVars>>

\* BM25Okapi(...) is a library constructor that averages the document length
\* over the corpus size; on an empty corpus it may raise
BuildBM25(ok) ==
    /\ initpc = "build_bm25"
    /\ ok \/ corpus = <<>>
    /\ IF ok
       THEN initpc' = "ready" /\ bm25' = [j \in DOMAIN corpus |-> Split(corpus[j])]
       ELSE initpc' = "failed" /\ UNCHANGED bm25
    /\ UNCHANGED <<index, metadata, corpus, diskVars, ingVars, reqVars, evalVars>>

\* the import failed; the server process is started again
Restart ==
    /\ initpc = "failed"
    /\ initpc' = "read_index"
    /\ index' = NotLoaded /\ metadata' = <<>> /\ corpus' = <<>> /\ bm25' = <<>>
    /\ UNCHANGED <<diskVars, ingVars, reqVars, evalVars>>

(***************************************************************************)
(* app/retriever.py, retrieve(query, k)                                    *)
(***************************************************************************)
\* list[j] for a Python list: -len <= j < len, IndexError otherwise
InRange(list, j) == -Len(list) <= j /\ j < Len(list)

PyGet(list, j) == IF j >= 0 THEN list[j + 1] ELSE list[Len(list) + j + 1]

\* index.search(vec, k): I[0] holds k labels, the min(k, ntotal) nearest
\* vectors in some order, padded with -1
SearchResults(ntotal, k) ==
    { I \in [1..k -> -1..(ntotal - 1)] :
        /\ \A j \in 1..k : (j <= Min(k, ntotal)) <=> (I[j] >= 0)
        /\ \A a, b \in 1..Min(k, ntotal) : a # b => I[a] # I[b] }

\* bm25.get_scores(...): one score per corpus entry
ScoreVectors(n) == [1..n -> 0..MaxScore]

\* sorted(range(n), key=scores, reverse=True): stable, so equal scores keep
\* the corpus order
RECURSIVE SortedDesc(_, _)
SortedDesc(scores, todo) ==
    IF todo = {} THEN <<>>
    ELSE LET best == CHOOSE a \in todo :
                        \A b \in todo :
                            \/ scores[a + 1] > scores[b + 1]
                            \/ scores[a + 1] = scores[b + 1] /\ a <= b
         IN  <<best>> \o SortedDesc(scores, todo \ {best})

bm25_top(scores, k) == Slice(SortedDesc(scores, 0..(Len(scores) - 1)), 0, k)

\* line 27
Key(c) == <<c.doc, c.page, Slice(c.text, 0, KeyLen)>>

\* the loop without the `key not in seen` test
RECURSIVE CombineLoopNoDedup(_, _, _, _)
CombineLoopNoDedup(cands, seen, combined, k) ==
    IF cands = <<>> THEN combined
    ELSE LET combined2 == Append(combined, Head(cands))
         IN  IF Len(combined2) >= k THEN combined2
             ELSE CombineLoopNoDedup(Tail(cands), seen, combined2, k)

\* lines 24-32: the loop over vector_chunks + bm25_chunks
RECURSIVE CombineLoop(_, _, _, _)
CombineLoop(cands, seen, combined, k) ==
    IF cands = <<>> THEN combined
    ELSE LET c == Head(cands)
             fresh == Key(c) \notin seen
             combined2 == IF fresh THEN Append(combined, c) ELSE combined
             seen2 == IF fresh THEN seen \cup {Key(c)} ELSE seen
         IN  IF Len(combined2) >= k THEN combined2
             ELSE CombineLoop(Tail(cands), seen2, combined2, k)

\* the candidates concatenated lexical-first
CombineLexicalFirst(vchunks, bchunks, k) ==
    Slice(CombineLoop(bchunks \o vchunks, {}, <<>>, k), 0, k)

\* lines 24-33
Combine(vchunks, bchunks, k) == Slice(CombineLoop(vchunks \o bchunks, {}, <<>>, k), 0, k)

\* the exception swallowed into an empty result
RaiseSwallowed(e) ==
    /\ rpc' = "done"
    /\ outcome' = "returned"
    /\ exc' = None

\* no try/except in retrieve() or ask_question(): the exception reaches the caller
Raise(e) ==
    /\ rpc' = "done"
    /\ outcome' = "raised"
    /\ exc' = e

\* a request arrives: retrieve(query, k) or ask_question(q, debug), which
\* calls retrieve(q) with the default k.  The module is imported before any
\* caller can exist.
Call(kind, k, debug) ==
    /\ rpc = "idle"
    /\ initpc = "ready"
    /\ kind = "ask" => k = DefaultK
    /\ rpc' = "embed"
    /\ call' = [kind |-> kind, k |-> k, debug |-> debug]
    /\ UNCHANGED <<vector_chunks, bm25_chunks, chunks, context, llmCalled,
                   fault, outcome, exc, response>>
    /\ UNCHANGED <<diskVars, ingVars, memVars, evalVars>>

\* line 12
Embed(ok) ==
    /\ rpc = "embed"
    /\ IF ok
       THEN rpc' = "search" /\ UNCHANGED <<fault, outcome, exc>>
       ELSE fault' = "embed" /\ Raise("EmbedError")
    /\ UNCHANGED <<call, vector_chunks, bm25_chunks, chunks, context, llmCalled, response>>
    /\ UNCHANGED <<diskVars, ingVars, memVars, evalVars>>

\* line 13, the vector search fails
SearchFails ==
    /\ rpc = "search"
    /\ fault' = "search"
    /\ Raise("SearchError")
    /\ UNCHANGED <<call, vector_chunks, bm25_chunks, chunks, context, llmCalled, response>>
    /\ UNCHANGED <<diskVars, ingVars, memVars, evalVars>>

\* lines 13-33
Search ==
    /\ rpc = "search"
    /\ \E I \in SearchResults(index, call.k), scores \in ScoreVectors(Len(bm25)) :
         IF \E j \in DOMAIN I : ~InRange(metadata, I[j])
         THEN /\ Raise("IndexError")
              /\ UNCHANGED <<vector_chunks, bm25_chunks, chunks>>
         ELSE LET vc == [j \in DOMAIN I |-> PyGet(metadata, I[j])]
                  top == bm25_top(scores, call.k)
                  bc == [j \in DOMAIN top |-> PyGet(metadata, top[j])]
              IN  /\ vector_chunks' = vc
                  /\ bm25_chunks' = bc
                  /\ chunks' = Combine(vc, bc, call.k)
                  /\ IF call.kind = "retrieve"
                     THEN rpc' = "done" /\ outcome' = "returned" /\ UNCHANGED exc
                     ELSE rpc' = "generate" /\ UNCHANGED <<outcome, exc>>
    /\ UNCHANGED <<call, context, llmCalled, fault, response>>
    /\ UNCHANGED <<diskVars, ingVars, memVars, evalVars>>

(***************************************************************************)
(* app/rag_pipeline.py and app/llm.py                                      *)
(***************************************************************************)
RECURSIVE IntToStr(_)
IntToStr(n) ==
    LET d == <<"0","1","2","3","4","5","6","7","8","9">>[(n % 10) + 1]
    IN  IF n < 10 THEN <<d>> ELSE Append(IntToStr(n \div 10), d)

\* f'{c["doc"]} page {c["page"]+1}'
Citation(c) == c.doc \o <<" ", "p", "a", "g", "e", " ">> \o IntToStr(c.page + 1)

\* what the model may return as msg.content[0].text
LLMTexts == { <<>>, REFUSAL, <<"x">>, <<"q", " ", "r">> }

\* generate(context, question) returned `text`; ask_question lines 11-17
Respond(text) ==
    /\ response' = [answer |-> IF text # <<>> THEN text ELSE REFUSAL,
                    citations |-> [j \in DOMAIN chunks |-> Citation(chunks[j])],
                    chunks |-> IF call.debug THEN chunks ELSE <<>>]
    /\ rpc' = "done"
    /\ outcome' = "returned"
    /\ UNCHANGED exc

\* ask_question lines 7-17 with generate() lines 13-34; the messages.create
\* call either raises or returns a text
Generate(llmOk, text) ==
    /\ rpc = "generate"
    /\ LET ctx == Join([j \in DOMAIN chunks |-> chunks[j].text]) IN
         /\ context' = ctx
         /\ IF Strip(ctx) = <<>>
            THEN /\ llmCalled' = FALSE
                 /\ Respond(REFUSAL)
                 /\ UNCHANGED fault
            ELSE /\ llmCalled' = TRUE
                 /\ IF llmOk
                    THEN Respond(text) /\ UNCHANGED fault
                    ELSE fault' = "generate" /\ Raise("APIError") /\ UNCHANGED response
    /\ UNCHANGED <<call, vector_chunks, bm25_chunks, chunks>>
    /\ UNCHANGED <<diskVars, ingVars, memVars, evalVars>>

\* the call is over; the caller issues the next one
Finish ==
    /\ rpc = "done"
    /\ rpc' = "idle"
    /\ call' = None
    /\ vector_chunks' = <<>> /\ bm25_chunks' = <<>> /\ chunks' = <<>>
    /\ context' = <<>> /\ llmCalled' = FALSE /\ fault' = None
    /\ outcome' = None /\ exc' = None /\ response' = None
    /\ UNCHANGED <<diskVars, ingVars, memVars, evalVars>>

(***************************************************************************)
(* The serving side: ingestion, module import, one caller.                 *)
(***************************************************************************)
\* vector_store/ before the first step: absent, empty, or left by an earlier
\* ingest() of one of the data directories
InitialStores ==
    { <<NoIndexFile, NoMetaFile>>, <<IndexFile(0), MetaFile(<<>>)>> }
    \cup { <<IndexFile(Len(IngestMetadata(d))), MetaFile(IngestMetadata(d))>> :
             d \in { e \in DataDirs : IngestMetadata(e) # <<>> } }

EvalOff ==
    /\ questions = <<>>
    /\ evalpc = "off"
    /\ i = 0
    /\ failed = {}
    /\ results = <<>>
    /\ saved = None
    /\ summary = None
    /\ best_5 = <<>>
    /\ worst_5 = <<>>

Init ==
    /\ \E st \in InitialStores : diskIndex = st[1] /\ diskMeta = st[2]
    /\ ingpc = "idle" /\ ingMetadata = <<>>
    /\ initpc = "read_index"
    /\ index = NotLoaded /\ metadata = <<>> /\ corpus = <<>> /\ bm25 = <<>>
    /\ rpc = "idle" /\ call = None
    /\ vector_chunks = <<>> /\ bm25_chunks = <<>> /\ chunks = <<>>
    /\ context = <<>> /\ llmCalled = FALSE /\ fault = None
    /\ outcome = None /\ exc = None /\ response = None
    /\ EvalOff

Next ==
    \/ \E d \in DataDirs, ok \in BOOLEAN : IngestStart(d, ok)
    \/ IngestDump
    \/ ReadIndex
    \/ LoadMetadata
    \/ \E ok \in BOOLEAN : BuildBM25(ok)
    \/ Restart
    \/ \E kind \in {"retrieve", "ask"}, k \in 1..MaxK \cup {DefaultK}, debug \in BOOLEAN :
          Call(kind, k, debug)
    \/ \E ok \in BOOLEAN : Embed(ok)
    \/ SearchFails
    \/ Search
    \/ \E ok \in BOOLEAN, text \in LLMTexts : Generate(ok, text)
    \/ Finish

Spec == Init /\ [][Next]_vars

(***************************************************************************)
(* evaluation/evaluate.py: metrics                                         *)
(***************************************************************************)
\* a float that is a ratio of two small integers
Frac(n, d) == [num |-> n, den |-> d]
FracLT(a, b) == a.num * b.den < b.num * a.den
FracLE(a, b) == a.num * b.den <= b.num * a.den
FracEQ(a, b) == a.num * b.den = b.num * a.den

\* re.sub(r"\s+", " ", text.lower().strip())
normalize(text) == CollapseWs(Lower(Strip(text)))

\* set(re.findall(r"\b\w+\b", normalize(text))): the maximal runs of word
\* characters
tokenize(text) ==
    LET t == normalize(text)
    IN  {SubSeq(t, j, RunEnd(t, WordChars, j)) : j \in RunStarts(t, WordChars)}

overlap_score(answer_tokens, chunk_tokens) ==
    IF answer_tokens = {} THEN Frac(1, 1)
    ELSE Frac(Cardinality(answer_tokens \cap chunk_tokens), Cardinality(answer_tokens))

\* REFUSAL.strip()
StrippedRefusal == Strip(REFUSAL)

\* answer.strip() == REFUSAL.strip()
IsRefusal(answer) == Strip(answer) = StrippedRefusal

\* lines 44-46, 57-59
ChunkTokens(cs) == UNION {tokenize(cs[j].text) : j \in DOMAIN cs}

\* the tokens of the first chunk only
retrieval_hit_first_chunk(answer, cs) ==
    IF cs = <<>> \/ cs[1].text = <<>> THEN FALSE
    ELSE IF IsRefusal(answer) THEN FALSE
    ELSE FracLE(Frac(15, 100), overlap_score(tokenize(answer), tokenize(cs[1].text)))

retrieval_hit(answer, cs) ==
    IF cs = <<>> \/ cs[1].text = <<>> THEN FALSE
    ELSE IF IsRefusal(answer) THEN FALSE
    ELSE FracLE(Frac(15, 100), overlap_score(tokenize(answer), ChunkTokens(cs)))

\* faithfulness without its refusal branch
faithfulness_no_refusal(answer, cs) ==
    IF cs = <<>> THEN Frac(0, 1)
    ELSE overlap_score(tokenize(answer), ChunkTokens(cs))

faithfulness(answer, cs) ==
    IF IsRefusal(answer) THEN Frac(1, 1)
    ELSE IF cs = <<>> THEN Frac(0, 1)
    ELSE overlap_score(tokenize(answer), ChunkTokens(cs))

is_hallucination(answer, cs) ==
    IF IsRefusal(answer) THEN FALSE
    ELSE FracLT(faithfulness(answer, cs), Frac(25, 100))

(***************************************************************************)
(* evaluation/evaluate.py: run_evaluation()                                *)
(***************************************************************************)
\* dict.get(key, default)
Get(d, key, default) == IF key \in DOMAIN d THEN d[key] ELSE default

\* lines 81-91, with hallucination left False
FailedRecordNotFlagged(q, e) ==
    [question |-> q.question, type |-> Get(q, "type", "factual"),
     answer |-> <<>>, citations |-> <<>>, chunks |-> <<>>, error |-> e,
     retrieval_hit |-> FALSE, faithfulness |-> Frac(0, 1), hallucination |-> FALSE]

\* lines 81-91
FailedRecord(q, e) ==
    [question |-> q.question, type |-> Get(q, "type", "factual"),
     answer |-> <<>>, citations |-> <<>>, chunks |-> <<>>, error |-> e,
     retrieval_hit |-> FALSE, faithfulness |-> Frac(0, 1), hallucination |-> TRUE]

\* lines 94-111
ScoredRecord(q, data) ==
    LET answer == Get(data, "answer", <<>>)
        cs == Get(data, "chunks", <<>>)
        citations == Get(data, "citations", <<>>)
    IN  [question |-> q.question, type |-> Get(q, "type", "factual"),
         answer |-> answer, citations |-> citations, chunks |-> cs,
         retrieval_hit |-> retrieval_hit(answer, cs),
         faithfulness |-> faithfulness(answer, cs),
         hallucination |-> is_hallucination(answer, cs)]

\* round(count / n if n else 0, 4), in ten-thousandths (no count / n with
\* n <= 31 lies halfway between two of them)
Round4(count, n) == IF n = 0 THEN 0 ELSE (2 * 10000 * count + n) \div (2 * n)

Count(rs, P(_)) == Cardinality({j \in DOMAIN rs : P(rs[j])})

\* lines 131-138: s = 0.0 (+1.0) + faithfulness (-2.0) (+0.5), over 2 * den
Score(r) ==
    LET f == r.faithfulness
    IN  Frac( (IF r.retrieval_hit THEN 2 * f.den ELSE 0)
              + 2 * f.num
              - (IF r.hallucination THEN 4 * f.den ELSE 0)
              + (IF IsRefusal(r.answer) /\ ~r.retrieval_hit THEN f.den ELSE 0),
              2 * f.den )

\* lines 129-139: the list of (s, r) pairs
Scored(rs) == [j \in DOMAIN rs |-> <<Score(rs[j]), rs[j]>>]

\* scored.sort(key=lambda x: x[0], reverse=True): stable, so equal scores
\* keep the order of the results
RECURSIVE SortFrom(_, _)
SortFrom(scored, todo) ==
    IF todo = {} THEN <<>>
    ELSE LET best == CHOOSE a \in todo :
                        \A b \in todo :
                            \/ FracLT(scored[b][1], scored[a][1])
                            \/ FracEQ(scored[a][1], scored[b][1]) /\ a <= b
         IN  <<scored[best]>> \o SortFrom(scored, todo \ {best})

SortDesc(scored) == SortFrom(scored, DOMAIN scored)

Reverse(seq) == [j \in DOMAIN seq |-> seq[Len(seq) + 1 - j]]

\* [r for _, r in scored[:5]]
Best5(scored) == [j \in 1..Min(TopN, Len(scored)) |-> scored[j][2]]

\* [r for _, r in scored[-5:]], not reversed
Worst5Unreversed(scored) ==
    [j \in 1..Min(TopN, Len(scored)) |->
        scored[Len(scored) - Min(TopN, Len(scored)) + j][2]]

\* [r for _, r in scored[-5:]][::-1]
Worst5(scored) ==
    Reverse([j \in 1..Min(TopN, Len(scored)) |->
                scored[Len(scored) - Min(TopN, Len(scored)) + j][2]])

\* the request of lines 78-79 raised inside the try block
EvalCaseFails(e) ==
    /\ evalpc = "loop"
    /\ i < Len(questions)
    /\ results' = Append(results, FailedRecord(questions[i + 1], e))
    /\ failed' = failed \cup {i + 1}
    /\ i' = i + 1
    /\ UNCHANGED <<questions, evalpc, saved, summary, best_5, worst_5>>
    /\ UNCHANGED <<diskVars, ingVars, memVars, reqVars>>

\* lines 78-79 returned the JSON object `data`; lines 94-111
EvalCase(data) ==
    /\ evalpc = "loop"
    /\ i < Len(questions)
    /\ results' = Append(results, ScoredRecord(questions[i + 1], data))
    /\ i' = i + 1
    /\ UNCHANGED <<questions, evalpc, failed, saved, summary, best_5, worst_5>>
    /\ UNCHANGED <<diskVars, ingVars, memVars, reqVars>>

\* line 115, after the last question
Save ==
    /\ evalpc = "loop"
    /\ i = Len(questions)
    /\ saved' = results
    /\ evalpc' = "report"
    /\ UNCHANGED <<questions, i, failed, results, summary, best_5, worst_5>>
    /\ UNCHANGED <<diskVars, ingVars, memVars, reqVars>>

IsHit(r) == r.retrieval_hit
IsFaithful(r) == FracLE(Frac(25, 100), r.faithfulness)
IsHall(r) == r.hallucination
IsAnswered(r) == ~IsRefusal(r.answer)

\* lines 118-156
Report ==
    /\ evalpc = "report"
    /\ LET n == Len(results)
           scored == SortDesc(Scored(results))
       IN  /\ summary' = [total_questions |-> n,
                          answered |-> Count(results, IsAnswered),
                          refused |-> n - Count(results, IsAnswered),
                          retrieval_hit_rate |-> Round4(Count(results, IsHit), n),
                          faithfulness_rate |-> Round4(Count(results, IsFaithful), n),
                          hallucination_rate |-> Round4(Count(results, IsHall), n)]
           /\ best_5' = Best5(scored)
           /\ worst_5' = Worst5(scored)
    /\ evalpc' = "done"
    /\ UNCHANGED <<questions, i, failed, results, saved>>
    /\ UNCHANGED <<diskVars, ingVars, memVars, reqVars>>

(***************************************************************************)
(* The evaluation run: its inputs and specifications.                      *)
(***************************************************************************)
\* questions.json: every second entry has no "type"
QuestionSet(n) ==
    [j \in 1..n |->
        IF j % 2 = 1
        THEN [question |-> <<"q">> \o IntToStr(j), type |-> "procedural"]
        ELSE [question |-> <<"q">> \o IntToStr(j)]]

PaddedRefusal == <<" ">> \o REFUSAL \o <<"\n">>
AnsXY == <<"X", " ", "y", ".">>
AnsQR == <<"q", " ", "r">>
AnsDots == <<".", ".", ".">>
AnsX == <<"x">>
AnsFifth == <<"x", " ", "q", " ", "r", " ", "s", " ", "t">>
AnsQuarter == <<"x", " ", "q", " ", "r", " ", "s">>
TxtXY == <<"x", " ", "y">>
TxtZ == <<"z">>
TxtNotAvailable == <<"n", "o", "t", " ", "a", "v", "a", "i", "l", "a", "b", "l", "e">>

Fr(page, text) == Fragment(NameA, page, text)

Answer(answer, cs) ==
    [answer |-> answer,
     citations |-> [j \in DOMAIN cs |-> Citation(cs[j])],
     chunks |-> cs]

\* JSON objects the /ask endpoint may send back (debug=True)
RRefusalNoChunks == Answer(REFUSAL, <<>>)
RRefusalWithChunks == Answer(REFUSAL, <<Fr(0, TxtXY)>>)
RPaddedRefusal == Answer(PaddedRefusal, <<Fr(0, TxtNotAvailable)>>)
RGrounded == Answer(AnsXY, <<Fr(0, TxtZ), Fr(1, TxtXY)>>)
RUnrelated == Answer(AnsQR, <<Fr(0, TxtXY)>>)
RNoTokens == Answer(AnsDots, <<Fr(0, TxtXY)>>)
REmptyFirst == Answer(AnsX, <<Fr(0, <<>>), Fr(1, TxtXY)>>)
RFifth == Answer(AnsFifth, <<Fr(0, TxtXY)>>)
RQuarter == Answer(AnsQuarter, <<Fr(0, TxtXY)>>)
RDetail == [detail |-> "error"]

Responses ==
    { RRefusalNoChunks, RRefusalWithChunks, RPaddedRefusal, RGrounded, RUnrelated,
      RNoTokens, REmptyFirst, RFifth, RQuarter, RDetail }

\* what requests.post(...) / r.json() raise: timeout, transport error, a body
\* that is not JSON
RequestErrors == {"Timeout", "ConnectionError", "JSONDecodeError"}

ServeOff ==
    /\ diskIndex = NoIndexFile /\ diskMeta = NoMetaFile
    /\ ingpc = "idle" /\ ingMetadata = <<>>
    /\ initpc = "off"
    /\ index = NotLoaded /\ metadata = <<>> /\ corpus = <<>> /\ bm25 = <<>>
    /\ rpc = "off" /\ call = None
    /\ vector_chunks = <<>> /\ bm25_chunks = <<>> /\ chunks = <<>>
    /\ context = <<>> /\ llmCalled = FALSE /\ fault = None
    /\ outcome = None /\ exc = None /\ response = None

EvalInit ==
    /\ ServeOff
    /\ \E n \in 0..MaxQuestions : questions = QuestionSet(n)
    /\ evalpc = "loop"
    /\ i = 0
    /\ failed = {}
    /\ results = <<>>
    /\ saved = None
    /\ summary = None
    /\ best_5 = <<>>
    /\ worst_5 = <<>>

EvalNext ==
    \/ \E e \in RequestErrors : EvalCaseFails(e)
    \/ \E data \in Responses : EvalCase(data)
    \/ Save
    \/ Report

EvalSpec == EvalInit /\ [][EvalNext]_vars

\* a longer run whose requests time out or are answered in one of three ways
RankOutcomes == {RGrounded, RRefusalNoChunks, RFifth}

RankInit ==
    /\ ServeOff
    /\ \E n \in 0..MaxRanked : questions = QuestionSet(n)
    /\ evalpc = "loop"
    /\ i = 0
    /\ failed = {}
    /\ results = <<>>
    /\ saved = None
    /\ summary = None
    /\ best_5 = <<>>
    /\ worst_5 = <<>>

RankNext ==
    \/ EvalCaseFails("Timeout")
    \/ \E data \in RankOutcomes : EvalCase(data)
    \/ Save
    \/ Report

RankSpec == RankInit /\ [][RankNext]_vars

(***************************************************************************)
(* Properties of the serving side.                                         *)
(***************************************************************************)
\* retrieve() has returned in the current call
RetrieveReturned ==
    \/ rpc = "generate"
    \/ rpc = "done" /\ (outcome = "returned" \/ fault = "generate")

\* the deduplication key as the specification states it
DedupKey(c) == <<c.doc, c.page, SubSeq(c.text, 1, Min(50, Len(c.text)))>>

\* the error kind of a failed embedding or vector-search service
RetrievalUnavailable == {"EmbedError", "SearchError"}

\* C1: whatever retrieve(query, k) returns has at most k fragments, and no
\* two of them share the key (doc, page, first 50 characters of text).
C1_AtMostKDistinctKeys ==
    RetrieveReturned =>
        /\ Len(chunks) <= call.k
        /\ \A a, b \in DOMAIN chunks : a # b => DedupKey(chunks[a]) # DedupKey(chunks[b])

\* C1 witness: a full result although two different candidates shared a key
C1_Witness ==
    /\ RetrieveReturned
    /\ Len(chunks) = call.k
    /\ call.k >= 2
    /\ \E a, b \in DOMAIN vector_chunks :
          /\ vector_chunks[a] # vector_chunks[b]
          /\ DedupKey(vector_chunks[a]) = DedupKey(vector_chunks[b])

DisjointBigPaths ==
    /\ RetrieveReturned
    /\ Range(vector_chunks) \cap Range(bm25_chunks) = {}
    /\ Cardinality(Range(vector_chunks)) >= call.k
    /\ Cardinality(Range(bm25_chunks)) >= call.k

\* C2 as stated: disjoint vector and lexical fragment sets, both of size at
\* least k, give exactly the vector-search fragments in their order.
C2_Original_VectorResultsWin ==
    DisjointBigPaths => chunks = vector_chunks

\* C2 amended: the same, provided the vector-search fragments have pairwise
\* different deduplication keys.
C2_VectorResultsWinWhenKeysDiffer ==
    ( /\ DisjointBigPaths
      /\ \A a, b \in DOMAIN vector_chunks :
            a # b => DedupKey(vector_chunks[a]) # DedupKey(vector_chunks[b]) )
    => chunks = vector_chunks

\* C2 witness: two disjoint rankings of two fragments each
C2_Witness ==
    /\ DisjointBigPaths
    /\ call.k >= 2
    /\ chunks = vector_chunks

\* C3: when the embedding or the vector search fails, the call raises that
\* failure (the RetrievalUnavailable kind) and returns nothing.
C3_ServiceFailureRaises ==
    (rpc = "done" /\ fault \in {"embed", "search"}) =>
        /\ outcome = "raised"
        /\ exc \in RetrievalUnavailable
        /\ chunks = <<>>

\* C3 witness: ask_question ended by a failed vector search
C3_Witness ==
    /\ rpc = "done"
    /\ fault = "search"
    /\ call.kind = "ask"
    /\ outcome = "raised"

\* C4: with an empty corpus and no service failure, retrieve returns the
\* empty sequence and ask_question answers with the refusal sentence.
C4_EmptyCorpusReturnsEmpty ==
    (rpc = "done" /\ metadata = <<>> /\ index = 0 /\ fault = None) =>
        /\ outcome = "returned"
        /\ chunks = <<>>
        /\ call.kind = "ask" => response.answer = REFUSAL

\* C5: once retrieval has succeeded ask_question returns a response, the
\* refusal sentence when the context is empty, also when generation fails.
C5_AskAlwaysResponds ==
    (rpc = "done" /\ call.kind = "ask" /\ fault \notin {"embed", "search"}
       /\ exc # "IndexError") =>
        /\ outcome = "returned"
        /\ Strip(context) = <<>> => response.answer = REFUSAL

\* C10: calls start only after the import has completed; from then on the
\* loaded index, fragment list, corpus and lexical index never change,
\* whatever ingest() does; every fragment returned is one of those loaded.
C10_LoadedCorpusIsReadOnly ==
    /\ [](rpc # "idle" => initpc = "ready")
    /\ [](RetrieveReturned => Range(chunks) \subseteq Range(metadata))
    /\ [][initpc = "ready" =>
            /\ initpc' = "ready"
            /\ index' = index
            /\ metadata' = metadata
            /\ corpus' = corpus
            /\ bm25' = bm25]_vars

\* C10 witness: a call served from the loaded corpus after an ingest()
\* replaced the store on disk
C10_Witness ==
    /\ initpc = "ready"
    /\ RetrieveReturned
    /\ chunks # <<>>
    /\ ingpc = "idle"
    /\ diskIndex.ntotal # index
    /\ diskMeta.items # metadata

(***************************************************************************)
(* Properties of the evaluation engine.                                    *)
(***************************************************************************)
Quarter == Frac(1, 4)

\* C6: in every record of the results list, hallucination holds only with
\* faithfulness < 0.25 and an answer other than the refusal sentence; a
\* refusal answer has faithfulness 1.0 and no hallucination.
C6_HallucinationInvariant ==
    \A j \in DOMAIN results :
        LET r == results[j] IN
          /\ r.hallucination => FracLT(r.faithfulness, Quarter) /\ r.answer # REFUSAL
          /\ r.answer = REFUSAL => FracEQ(r.faithfulness, Frac(1, 1)) /\ ~r.hallucination

\* C6 witness: a refusal without fragments, a failed case and a flagged
\* answer in one results list
C6_Witness ==
    /\ \E j \in DOMAIN results : results[j].answer = REFUSAL /\ results[j].chunks = <<>>
    /\ \E j \in DOMAIN results : j \in failed
    /\ \E j \in DOMAIN results : j \notin failed /\ results[j].hallucination

\* a rate (in ten-thousandths) is count / n rounded to four decimals
IsRateOf(rate, count, n) ==
    IF n = 0 THEN rate = 0
    ELSE /\ 2 * (rate * n - 10000 * count) <= n
         /\ 2 * (10000 * count - rate * n) <= n

\* C7: the loop appends one record per question, in order, whatever fails;
\* a failed case has empty answer, citations and fragments, retrieval_hit
\* false, faithfulness 0.0, hallucination true and an error description; the
\* run ends with n records and every rate is taken over n.
C7_BatchNeverAborts ==
    /\ Len(results) = i
    /\ i <= Len(questions)
    /\ \A j \in DOMAIN results : results[j].question = questions[j].question
    /\ \A j \in failed :
          /\ j \in DOMAIN results
          /\ "error" \in DOMAIN results[j]
          /\ results[j].error \in RequestErrors
          /\ results[j].answer = <<>>
          /\ results[j].citations = <<>>
          /\ results[j].chunks = <<>>
          /\ ~results[j].retrieval_hit
          /\ FracEQ(results[j].faithfulness, Frac(0, 1))
          /\ results[j].hallucination
    /\ evalpc \in {"report", "done"} => Len(results) = Len(questions)
    /\ evalpc = "done" =>
          LET n == Len(questions) IN
            /\ summary.total_questions = n
            /\ IsRateOf(summary.retrieval_hit_rate,
                        Cardinality({j \in 1..n : results[j].retrieval_hit}), n)
            /\ IsRateOf(summary.faithfulness_rate,
                        Cardinality({j \in 1..n : FracLE(Quarter, results[j].faithfulness)}), n)
            /\ IsRateOf(summary.hallucination_rate,
                        Cardinality({j \in 1..n : results[j].hallucination}), n)

\* C7 witness: a finished run in which a request failed before one succeeded
C7_Witness ==
    /\ evalpc = "done"
    /\ \E a, b \in DOMAIN results : a < b /\ a \in failed /\ b \notin failed
    /\ summary.hallucination_rate > 0

\* |tokens(answer) /\ tokens(fragments)| / |tokens(answer)| >= 0.15, 1.0 for
\* an answer without tokens
RatioReaches15(at, ct) ==
    at = {} \/ 100 * Cardinality(at \cap ct) >= 15 * Cardinality(at)

\* an answer with a token, and none of its tokens in a non-empty fragment list
Unrelated(at, ct, cs) ==
    /\ at # {}
    /\ cs # <<>>
    /\ at \cap ct = {}

Score2(r) ==
    Frac( (IF r.retrieval_hit THEN 2 * r.faithfulness.den ELSE 0)
          + 2 * r.faithfulness.num
          - (IF r.hallucination THEN 4 * r.faithfulness.den ELSE 0)
          + (IF Strip(r.answer) = REFUSAL /\ ~r.retrieval_hit
             THEN r.faithfulness.den ELSE 0),
          r.faithfulness.den )

Questions(rs) == {rs[j].question : j \in DOMAIN rs}

====
